---- MODULE Spec2Model ----
(***************************************************************************)
(* Classroom Discourse Dashboard (src/main.py): the memoized loader        *)
(* load_and_merge_xlsx, the role classifier get_role and the module-level  *)
(* Streamlit script that filters the merged table and computes the RQ1,    *)
(* RQ2 and RQ3 views.                                                      *)
(*                                                                         *)
(* Text is a sequence of code points ("T" is <<84>>), so that str.strip,   *)
(* str.lower, substring tests and the ordering of lesson ids are computed  *)
(* and not assumed.  A cell is a record [k, s, n]:                         *)
(*   k = "None"  an empty spreadsheet cell / Python None                   *)
(*   k = "NA"    the missing marker of pandas (NaN, pd.NA)                 *)
(*   k = "str"   the text s                                                *)
(*   k = "num"   the number n                                              *)
(***************************************************************************)
EXTENDS Integers, Sequences, FiniteSets, TLC

VARIABLES
    dir,        \* the files of the DATA directory, each [name, cols, rows]
    cache,      \* memo of st.cache_data for load_and_merge_xlsx(DATA_DIR): <<>> or <<dataset>>
    pc,         \* position of the script run
    err,        \* the exception that ended the script run, NoErr when none
    data,       \* the table load_and_merge_xlsx returned
    selected,   \* selected_lessons
    filtered,   \* data restricted to the selected lessons
    rq1_turns,  \* role -> turn_count
    da_counts,  \* DialogAct top-N: sequence of [key, count]
    st_counts,  \* Student_Tag top-N: sequence of [key, count]
    ct_counts,  \* crosstab Teacher_Tag x DialogAct over the teacher rows
    ct_props,   \* row proportions of ct_counts
    heat,       \* the long-form records vega_heatmap hands to the chart
    loadedDir,  \* history: the directory as it was when load_and_merge_xlsx was last called
    arg,        \* the value get_role is called on (direct call)
    ret         \* what that call gave: "pending", a role, or the exception's type

vars == <<dir, cache, pc, err, data, selected, filtered, rq1_turns, da_counts,
          st_counts, ct_counts, ct_props, heat, loadedDir, arg, ret>>

----------------------------------------------------------------------------
(* Bounds of the model.                                                     *)

\* rows over the two lesson files of the merge inputs
MaxRows == 4
\* rows of lesson L1 in the aggregation inputs
MaxAggRows == 3
\* distinct dialog acts of the ranking inputs (above TopN, so that head() cuts)
MaxDistinct == 11
\* whitespace characters on each side of a speaker label
MaxPad == 1

(* Program constants.                                                       *)

\* .head(10) of da_counts and st_counts
TopN == 10

REQUIRED_COLS == <<"TimeStamp", "Turn", "Speaker", "Sentence",
                   "Teacher_Tag", "Student_Tag", "DialogAct">>

RequiredSet == {REQUIRED_COLS[i] : i \in DOMAIN REQUIRED_COLS}

----------------------------------------------------------------------------
(* Cells and text.                                                          *)

NoneCell == [k |-> "None", s |-> <<>>, n |-> 0]
NA == [k |-> "NA", s |-> <<>>, n |-> 0]
Str(t) == [k |-> "str", s |-> t, n |-> 0]
Num(i) == [k |-> "num", s |-> <<>>, n |-> i]

Min(a, b) == IF a <= b THEN a ELSE b

\* str.isspace for the ASCII range: \t \n \v \f \r, FS GS RS US, space
Whitespace == {9, 10, 11, 12, 13, 28, 29, 30, 31, 32}

RECURSIVE LStrip(_)
LStrip(t) ==
    IF t # <<>> /\ Head(t) \in Whitespace THEN LStrip(Tail(t)) ELSE t

RECURSIVE RStrip(_)
RStrip(t) ==
    IF t # <<>> /\ t[Len(t)] \in Whitespace
    THEN RStrip(SubSeq(t, 1, Len(t) - 1))
    ELSE t

\* str.strip()
Strip(t) == RStrip(LStrip(t))

\* str.lower() on ASCII: A..Z (65..90) become a..z
Lower(t) == [i \in 1..Len(t) |-> IF t[i] >= 65 /\ t[i] <= 90 THEN t[i] + 32 ELSE t[i]]

\* sub in t
Contains(t, sub) ==
    \E i \in 0..(Len(t) - Len(sub)) : SubSeq(t, i + 1, i + Len(sub)) = sub

StartsWith(t, p) == Len(t) >= Len(p) /\ SubSeq(t, 1, Len(p)) = p

EndsWith(t, p) == Len(t) >= Len(p) /\ SubSeq(t, Len(t) - Len(p) + 1, Len(t)) = p

\* Python's order of str: by code point, a proper prefix first
RECURSIVE StrLess(_, _)
StrLess(a, b) ==
    IF b = <<>> THEN FALSE
    ELSE IF a = <<>> THEN TRUE
    ELSE IF Head(a) # Head(b) THEN Head(a) < Head(b)
    ELSE StrLess(Tail(a), Tail(b))

\* "t", "teacher", "instructor"
txt_t == <<116>>
txt_teacher == <<116, 101, 97, 99, 104, 101, 114>>
txt_instructor == <<105, 110, 115, 116, 114, 117, 99, 116, 111, 114>>

----------------------------------------------------------------------------
(* get_role, lines 17-23.  `speaker or ""` takes the truth value of        *)
(* speaker: False for None and for "", and bool(pd.NA) raises TypeError.    *)

get_role(speaker) ==
    IF speaker.k = "NA" THEN "TypeError"
    ELSE LET t == Lower(Strip(IF speaker.k = "None" \/ speaker.s = <<>> THEN <<>> ELSE speaker.s))
         IN  IF t \in {txt_t, txt_teacher, txt_instructor} THEN "teacher"
             ELSE IF Contains(t, txt_teacher) THEN "teacher"
             ELSE "student"


----------------------------------------------------------------------------
(* File discovery, lines 28-31 and 36.                                      *)

txt_xlsx == <<46, 120, 108, 115, 120>>
txt_lock == <<126, 36>>

\* glob "*.xlsx" (which skips names that start with a dot) minus the lock files
Discoverable(name) ==
    /\ EndsWith(name, txt_xlsx)
    /\ name[1] # 46
    /\ ~StartsWith(name, txt_lock)

\* os.path.splitext(os.path.basename(path))[0]: the name up to its last dot
LessonId(name) ==
    LET dots == {i \in 2..Len(name) : name[i] = 46}
    IN  IF dots = {} THEN name
        ELSE SubSeq(name, 1, (CHOOSE i \in dots : \A j \in dots : j <= i) - 1)

xlsx_files(d) == {f \in d : Discoverable(f.name)}

\* glob gives the files in the order of the directory listing: any order
GlobOrders(d) ==
    LET S == xlsx_files(d)
    IN  {o \in [1..Cardinality(S) -> S] : \A i, j \in DOMAIN o : i # j => o[i] # o[j]}

----------------------------------------------------------------------------
(* pd.read_excel, line 35.  With the default keep_default_na an empty cell  *)
(* and a text cell whose text is one of the parser's NA strings are read as *)
(* NaN; the text is compared as it stands, untrimmed.                       *)

NaValues == {
    <<>>,
    <<35, 78, 47, 65>>, <<35, 78, 47, 65, 32, 78, 47, 65>>, <<35, 78, 65>>,
    <<45, 49, 46, 35, 73, 78, 68>>, <<45, 49, 46, 35, 81, 78, 65, 78>>,
    <<45, 78, 97, 78>>, <<45, 110, 97, 110>>,
    <<49, 46, 35, 73, 78, 68>>, <<49, 46, 35, 81, 78, 65, 78>>,
    <<60, 78, 65, 62>>, <<78, 47, 65>>, <<78, 65>>, <<78, 85, 76, 76>>,
    <<78, 97, 78>>, <<78, 111, 110, 101>>, <<110, 47, 97>>,
    <<110, 97, 110>>, <<110, 117, 108, 108>> }

ReadCell(c) ==
    IF c.k = "None" \/ (c.k = "str" /\ c.s \in NaValues) THEN NA ELSE c

\* lines 35-38: one file's frame, each row stamped with lesson_id; `row` is
\* the frame's own RangeIndex, the position of the row in the source file
FileFrame(f) ==
    [i \in 1..Len(f.rows) |->
        [lesson_id   |-> LessonId(f.name),
         row         |-> i - 1,
         TimeStamp   |-> ReadCell(f.rows[i].TimeStamp),
         Turn        |-> ReadCell(f.rows[i].Turn),
         Speaker     |-> ReadCell(f.rows[i].Speaker),
         Sentence    |-> ReadCell(f.rows[i].Sentence),
         Teacher_Tag |-> ReadCell(f.rows[i].Teacher_Tag),
         Student_Tag |-> ReadCell(f.rows[i].Student_Tag),
         DialogAct   |-> ReadCell(f.rows[i].DialogAct)]]

\* df[REQUIRED_COLS + ["lesson_id"]] raises KeyError for these
MissingCols(f) == RequiredSet \ f.cols

\* pd.concat(dfs, ignore_index=True), line 40
RECURSIVE Concat(_, _)
Concat(order, n) ==
    IF n = 0 THEN <<>> ELSE Concat(order, n - 1) \o FileFrame(order[n])

\* .astype("string").str.strip(), line 43: NaN becomes pd.NA, text is trimmed
\* (the text columns hold text or nothing)
StripCell(c) == IF c.k = "str" THEN Str(Strip(c.s)) ELSE NA

RECURSIVE ParseDigits(_)
ParseDigits(t) ==
    IF t = <<>> THEN 0
    ELSE 10 * ParseDigits(SubSeq(t, 1, Len(t) - 1)) + (t[Len(t)] - 48)

\* pd.to_numeric(errors="coerce"), line 45, on numbers, digit strings and
\* text that is no number
to_numeric(c) ==
    IF c.k = "num" THEN c
    ELSE IF c.k = "str" /\ c.s # <<>> /\ \A i \in DOMAIN c.s : c.s[i] \in 48..57
         THEN Num(ParseDigits(c.s))
         ELSE NA

\* lines 42-45
Normalize(r) ==
    [lesson_id   |-> r.lesson_id,
     row         |-> r.row,
     TimeStamp   |-> r.TimeStamp,
     Turn        |-> r.Turn,
     Speaker     |-> StripCell(r.Speaker),
     Sentence    |-> StripCell(r.Sentence),
     Teacher_Tag |-> StripCell(r.Teacher_Tag),
     Student_Tag |-> StripCell(r.Student_Tag),
     DialogAct   |-> StripCell(r.DialogAct),
     Turn_num    |-> to_numeric(r.Turn)]

\* ByLess with the second sort column forgotten
ByLess_LessonOnly(a, b) == StrLess(a.lesson_id, b.lesson_id)

\* the order of sort_values(by=["lesson_id", "Turn_num"]), NaN last
ByLess(a, b) ==
    \/ StrLess(a.lesson_id, b.lesson_id)
    \/ /\ a.lesson_id = b.lesson_id
       /\ a.Turn_num.k = "num"
       /\ (b.Turn_num.k = "NA" \/ a.Turn_num.n < b.Turn_num.n)

\* sorting on several columns is a lexsort, which is stable: the rows below
\* a middle key, then the rows with that key in the order they had in the
\* table, then the rows above it
RECURSIVE StableSort(_)
StableSort(t) ==
    IF Len(t) <= 1 THEN t
    ELSE LET n == Len(t)
             below(i) == Cardinality({j \in 1..n : ByLess(t[j], t[i])})
             above(i) == Cardinality({j \in 1..n : ByLess(t[i], t[j])})
             m == t[CHOOSE i \in 1..n : below(i) <= n \div 2 /\ above(i) <= n \div 2]
         IN  StableSort(SelectSeq(t, LAMBDA r : ByLess(r, m)))
                 \o SelectSeq(t, LAMBDA r : ~ByLess(r, m) /\ ~ByLess(m, r))
                 \o StableSort(SelectSeq(t, LAMBDA r : ByLess(m, r)))

\* sort_values that drops the rows without a Turn_num
sort_values_DropNaN(t) ==
    StableSort(SelectSeq(t, LAMBDA r : r.Turn_num.k # "NA"))

\* line 46
sort_values(t) == StableSort(t)

\* line 47
AddRole(r) ==
    [lesson_id   |-> r.lesson_id,
     row         |-> r.row,
     TimeStamp   |-> r.TimeStamp,
     Turn        |-> r.Turn,
     Speaker     |-> r.Speaker,
     Sentence    |-> r.Sentence,
     Teacher_Tag |-> r.Teacher_Tag,
     Student_Tag |-> r.Student_Tag,
     DialogAct   |-> r.DialogAct,
     Turn_num    |-> r.Turn_num,
     role        |-> get_role(r.Speaker)]

NoErr == [type |-> "none", file |-> <<>>, cols |-> {}, path |-> FALSE]

\* an exception: its type, the file name and the column names its message
\* gives, and whether the message refers to the directory
Raise(type, cols) == [type |-> type, file |-> <<>>, cols |-> cols, path |-> FALSE]

\* the body of load_and_merge_xlsx, lines 28-49, for one glob order
load_and_merge_xlsx(order) ==
    LET bad    == {i \in DOMAIN order : MissingCols(order[i]) # {}}
        first  == CHOOSE i \in bad : \A j \in bad : i <= j
        merged == Concat(order, Len(order))
        sorted == sort_values([i \in DOMAIN merged |-> Normalize(merged[i])])
        roled  == [i \in DOMAIN sorted |-> AddRole(sorted[i])]
    IN  IF bad # {}
            THEN [err |-> Raise("KeyError", MissingCols(order[first])), data |-> <<>>]
        ELSE IF order = <<>>
            THEN [err |-> Raise("ValueError", {}), data |-> <<>>]
        ELSE IF \E i \in DOMAIN roled : roled[i].role = "TypeError"
            THEN [err |-> Raise("TypeError", {}), data |-> <<>>]
        ELSE [err |-> NoErr, data |-> roled]

----------------------------------------------------------------------------
(* Aggregation helpers.                                                     *)

\* Series.dropna()
dropna(series) == SelectSeq(series, LAMBDA c : c.k # "NA")

CountOf(series, key) == Cardinality({i \in DOMAIN series : series[i].s = key})

\* Series.value_counts() of a series without NA: one [key, count] per
\* distinct value, by count descending.  The keys come out of the hash table
\* in order of first appearance and are then ordered by
\* Series.sort_values(ascending=False) with its default kind, quicksort,
\* which is not a stable sort: values of equal count may come in any order.
RECURSIVE Ranked(_, _)
Ranked(series, keys) ==
    IF keys = {} THEN {<<>>}
    ELSE LET top == {k \in keys : \A j \in keys : CountOf(series, j) <= CountOf(series, k)}
         IN  UNION {{<<[key |-> k, count |-> CountOf(series, k)]>> \o t :
                        t \in Ranked(series, keys \ {k})} : k \in top}

value_counts(series) == Ranked(series, {series[i].s : i \in DOMAIN series})

\* .head(n)
head(t, n) == SubSeq(t, 1, Min(n, Len(t)))

\* lines 209-214 and 235-240: the outcomes of
\* .dropna().value_counts().head(10).reset_index()
TopCounts(series) == {head(vc, TopN) : vc \in value_counts(dropna(series))}

Column(t, c) == [i \in DOMAIN t |-> t[i][c]]

\* groupby("role").size(), lines 195-199: the roles present, each with its count
GroupSize(t) ==
    [r \in {t[i].role : i \in DOMAIN t} |->
        Cardinality({i \in DOMAIN t : t[i].role = r})]

\* OfRole without the comparison of the role
OfRole_AnyRole(t, role) == t

\* filtered[filtered["role"] == role], lines 233 and 259
OfRole(t, role) == SelectSeq(t, LAMBDA r : r.role = role)

\* pd.crosstab(teachers["Teacher_Tag"], teachers["DialogAct"]), lines 261-264:
\* the rows where either value is NA are dropped, the labels are the values
\* observed, a pair that was not observed counts 0
crosstab(t) ==
    LET kept == {i \in DOMAIN t : t[i].Teacher_Tag.k # "NA" /\ t[i].DialogAct.k # "NA"}
        rows == {t[i].Teacher_Tag.s : i \in kept}
        cols == {t[i].DialogAct.s : i \in kept}
    IN  [index_name |-> "Teacher_Tag",
         rows |-> rows,
         cols |-> cols,
         n    |-> [q \in rows \X cols |->
                     Cardinality({i \in kept : t[i].Teacher_Tag.s = q[1]
                                               /\ t[i].DialogAct.s = q[2]})]]

RECURSIVE SumOver(_, _, _)
SumOver(n, row, cols) ==
    IF cols = {} THEN 0
    ELSE LET c == CHOOSE c \in cols : TRUE
         IN  n[<<row, c>>] + SumOver(n, row, cols \ {c})

\* ct_counts.sum(axis=1)
RowTotal(ct, row) == SumOver(ct.n, row, ct.cols)

\* a float as the fraction num/den; 0/0 is NaN, x/0 is inf
Frac(a, b) == [num |-> a, den |-> b]
IsNaN(x) == x.num = 0 /\ x.den = 0

\* .fillna(0)
fillna0(x) == IF IsNaN(x) THEN Frac(0, 1) ELSE x

\* ct_counts.div(ct_counts.sum(axis=1), axis=0).fillna(0), lines 266-267
RowProportions(ct) ==
    [index_name |-> "Teacher_Tag",
     rows |-> ct.rows,
     cols |-> ct.cols,
     p    |-> [q \in DOMAIN ct.n |-> fillna0(Frac(ct.n[q], RowTotal(ct, q[1])))]]

\* vega_heatmap, lines 99-107: reset_index().melt(id_vars="Teacher_Tag", ...)
\* raises KeyError unless the index is named Teacher_Tag; dropna() drops the
\* records that hold a NaN
vega_heatmap(df_props) ==
    IF df_props.index_name # "Teacher_Tag"
    THEN [err |-> Raise("KeyError", {"Teacher_Tag"}), long |-> {}]
    ELSE [err  |-> NoErr,
          long |-> {[Teacher_Tag |-> q[1], DialogAct |-> q[2], Proportion |-> df_props.p[q]] :
                      q \in {x \in DOMAIN df_props.p : ~IsNaN(df_props.p[x])}}]

\* FilterLessons that takes an empty selection for all the lessons
FilterLessons_AllWhenNone(t, sel) ==
    IF sel = {} THEN t ELSE SelectSeq(t, LAMBDA r : r.lesson_id \in sel)

\* data[data["lesson_id"].isin(selected_lessons)], line 165
FilterLessons(t, sel) == SelectSeq(t, LAMBDA r : r.lesson_id \in sel)

\* sorted(data["lesson_id"].unique()), line 158, as a set
lessons(t) == {t[i].lesson_id : i \in DOMAIN t}

EmptyCt == [index_name |-> "Teacher_Tag", rows |-> {}, cols |-> {}, n |-> <<>>]
EmptyProps == [index_name |-> "Teacher_Tag", rows |-> {}, cols |-> {}, p |-> <<>>]

----------------------------------------------------------------------------
(* The script run, lines 153-272, step by step.                             *)

viewVars == <<rq1_turns, da_counts, st_counts, ct_counts, ct_props, heat>>

\* line 153: data = load_and_merge_xlsx(DATA_DIR).  st.cache_data keys the
\* memo on the function and its argument, the string DATA_DIR: a stored value
\* is returned without looking at the directory; an exception stores nothing.
Load ==
    /\ pc = "start"
    /\ loadedDir' = dir
    /\ \E order \in GlobOrders(dir) :
          LET out == IF cache # <<>>
                     THEN [err |-> NoErr, data |-> cache[1]]
                     ELSE load_and_merge_xlsx(order)
          IN  /\ err' = out.err
              /\ data' = out.data
              /\ pc' = IF out.err = NoErr THEN "loaded" ELSE "crashed_load"
              /\ cache' = IF out.err = NoErr THEN <<out.data>> ELSE cache
    /\ UNCHANGED <<dir, selected, filtered, viewVars, arg, ret>>

\* lines 158-165: the multiselect gives any subset of the lessons
Select ==
    /\ pc = "loaded"
    /\ \E sel \in SUBSET lessons(data) :
          /\ selected' = sel
          /\ filtered' = FilterLessons(data, sel)
    /\ pc' = "filtered"
    /\ UNCHANGED <<dir, cache, err, data, viewVars, loadedDir, arg, ret>>

\* lines 194-224
RQ1 ==
    /\ pc = "filtered"
    /\ rq1_turns' = GroupSize(filtered)
    /\ da_counts' \in TopCounts(Column(filtered, "DialogAct"))
    /\ pc' = "rq1"
    /\ UNCHANGED <<dir, cache, err, data, selected, filtered, st_counts,
                   ct_counts, ct_props, heat, loadedDir, arg, ret>>

\* lines 233-250
RQ2 ==
    /\ pc = "rq1"
    /\ st_counts' \in TopCounts(Column(OfRole(filtered, "student"), "Student_Tag"))
    /\ pc' = "rq2"
    /\ UNCHANGED <<dir, cache, err, data, selected, filtered, rq1_turns, da_counts,
                   ct_counts, ct_props, heat, loadedDir, arg, ret>>

\* lines 259-272
RQ3 ==
    /\ pc = "rq2"
    /\ LET counts == crosstab(OfRole(filtered, "teacher"))
           props  == RowProportions(counts)
           out    == vega_heatmap(props)
       IN  /\ ct_counts' = counts
           /\ ct_props' = props
           /\ heat' = out.long
           /\ err' = out.err
           /\ pc' = IF out.err = NoErr THEN "done" ELSE "crashed_rq3"
    /\ UNCHANGED <<dir, cache, data, selected, filtered, rq1_turns, da_counts,
                   st_counts, loadedDir, arg, ret>>

\* a widget interaction reruns the script from the top; the memo stays
Rerun ==
    /\ pc \in {"done", "crashed_load", "crashed_rq3"}
    /\ pc' = "start"
    /\ err' = NoErr
    /\ data' = <<>>
    /\ selected' = {}
    /\ filtered' = <<>>
    /\ rq1_turns' = <<>>
    /\ da_counts' = <<>>
    /\ st_counts' = <<>>
    /\ ct_counts' = EmptyCt
    /\ ct_props' = EmptyProps
    /\ heat' = {}
    /\ UNCHANGED <<dir, cache, loadedDir, arg, ret>>

\* a direct call of get_role
CallGetRole ==
    /\ ret = "pending"
    /\ ret' = get_role(arg)
    /\ UNCHANGED <<dir, cache, pc, err, data, selected, filtered, viewVars, loadedDir, arg>>

----------------------------------------------------------------------------
(* The directories the script is run on.                                    *)

fn_L1 == <<76, 49, 46, 120, 108, 115, 120>>                \* "L1.xlsx"
fn_L2 == <<76, 50, 46, 120, 108, 115, 120>>                \* "L2.xlsx"
fn_lock == <<126, 36, 76, 49, 46, 120, 108, 115, 120>>     \* "~$L1.xlsx"
fn_notes == <<110, 111, 116, 101, 115, 46, 116, 120, 116>> \* "notes.txt"

txt_T == <<84>>
txt_S1 == <<83, 49>>
txt_Q == <<81>>
txt_S == <<83>>
txt_A == <<65>>
txt_B == <<66>>
txt_ask == <<97, 115, 107>>
txt_state == <<115, 116, 97, 116, 101>>
txt_nan == <<110, 97, 110>>
txt_NaN == <<78, 97, 78>>
txt_hello == <<104, 101, 108, 108, 111>>

Row(turn, speaker, ttag, stag, act) ==
    [TimeStamp |-> Str(<<48>>), Turn |-> turn, Speaker |-> speaker,
     Sentence |-> Str(txt_hello), Teacher_Tag |-> ttag, Student_Tag |-> stag,
     DialogAct |-> act]

File(name, cols, rows) == [name |-> name, cols |-> cols, rows |-> rows]

SeqsUpTo(S, n) == UNION {[1..k -> S] : k \in 0..n}

\* with the row's position as its Turn
Numbered(rows) ==
    [i \in DOMAIN rows |-> [rows[i] EXCEPT !.Turn = Num(i)]]

\* merge inputs: lessons L1 and L2, at most MaxRows rows in all, each Turn
\* the number 1, the digit string "2", the text "x" or nothing
TurnCells == {Num(1), Str(<<50>>), Str(<<120>>), NoneCell}

MergeTables ==
    {[i \in DOMAIN t |-> Row(t[i], Str(txt_T), Str(txt_Q), NoneCell, Str(txt_ask))] :
        t \in SeqsUpTo(TurnCells, MaxRows)}

MergeDirs ==
    LET opt(name) == {{}} \cup {{File(name, RequiredSet, t)} : t \in MergeTables}
        rowsOf(S) == IF S = {} THEN 0 ELSE Len((CHOOSE f \in S : TRUE).rows)
    IN  {p[1] \cup p[2] :
            p \in {q \in opt(fn_L1) \X opt(fn_L2) : rowsOf(q[1]) + rowsOf(q[2]) <= MaxRows}}

\* schema inputs: each lesson file absent or with one of these column sets,
\* with or without a lock file and a file that is no spreadsheet
ColSets ==
    {RequiredSet, RequiredSet \cup {"Notes"}, RequiredSet \ {"Turn"},
     RequiredSet \ {"Teacher_Tag", "DialogAct"}}

OneRow == <<Row(Str(<<50>>), Str(txt_T), Str(txt_Q), NoneCell, Str(txt_ask))>>

SchemaDirs ==
    LET opt(name) == {{}} \cup {{File(name, c, OneRow)} : c \in ColSets}
    IN  {p[1] \cup p[2] \cup p[3] \cup p[4] :
            p \in opt(fn_L1) \X opt(fn_L2)
                  \X {{}, {File(fn_lock, RequiredSet, OneRow)}}
                  \X {{}, {File(fn_notes, {}, <<>>)}}}

\* aggregation inputs: lesson L2 with one teacher row, lesson L1 with at most
\* MaxAggRows rows of these kinds
AggKinds ==
    {Row(NoneCell, Str(txt_T), Str(txt_Q), NoneCell, Str(txt_ask)),
     Row(NoneCell, Str(txt_T), Str(txt_Q), NoneCell, Str(txt_state)),
     Row(NoneCell, Str(txt_T), Str(txt_S), NoneCell, Str(txt_state)),
     Row(NoneCell, Str(txt_T), Str(txt_Q), NoneCell, NoneCell),
     Row(NoneCell, Str(txt_T), NoneCell, NoneCell, Str(txt_ask)),
     Row(NoneCell, Str(txt_S1), NoneCell, Str(txt_A), Str(txt_ask)),
     Row(NoneCell, Str(txt_S1), NoneCell, Str(txt_B), Str(txt_state)),
     Row(NoneCell, Str(txt_S1), NoneCell, NoneCell, Str(txt_ask)),
     Row(NoneCell, Str(txt_S1), Str(txt_Q), Str(txt_A), Str(txt_ask))}

AggDirs ==
    {{File(fn_L1, RequiredSet, Numbered(t)), File(fn_L2, RequiredSet, OneRow)} :
        t \in SeqsUpTo(AggKinds, MaxAggRows)}

\* canonicalization inputs: one row whose tag cells take every raw form of a
\* blank, before a row with tags
CanonCells ==
    {NoneCell, Str(<<>>), Str(txt_nan), Str(txt_NaN), Str(<<32>>),
     Str(txt_Q), Str(<<32, 81, 32>>)}

CanonRows ==
    {Row(Num(1), Str(txt_T), c[1], NoneCell, c[2]) : c \in CanonCells \X CanonCells}
    \cup {Row(Num(1), Str(txt_S1), NoneCell, c, Str(txt_ask)) : c \in CanonCells}

CanonDirs ==
    {{File(fn_L1, RequiredSet,
           <<r, Row(Num(2), Str(txt_T), Str(txt_S), NoneCell, Str(txt_state))>>)} :
        r \in CanonRows}

\* ranking inputs: n distinct dialog acts, the i-th on i rows, and one more
\* row of act e (none when e = 0), which then ties with act e + 1; the rows
\* of an odd act are student rows that carry it as Student_Tag too
ActText(i) == <<97 + i>>

RankRow(i) ==
    IF i % 2 = 1
    THEN Row(NoneCell, Str(txt_S1), NoneCell, Str(ActText(i)), Str(ActText(i)))
    ELSE Row(NoneCell, Str(txt_T), Str(txt_Q), NoneCell, Str(ActText(i)))

RECURSIVE RankRows(_)
RankRows(n) ==
    IF n = 0 THEN <<>> ELSE RankRows(n - 1) \o [j \in 1..n |-> RankRow(n)]

RankDirs ==
    {{File(fn_L1, RequiredSet,
           Numbered(RankRows(n) \o (IF e = 0 THEN <<>> ELSE <<RankRow(e)>>)))} :
        n \in 0..MaxDistinct, e \in 0..MaxDistinct}

\* speaker inputs: one row whose Speaker cell is blank, empty, or a label
SpeakerCells ==
    {NoneCell, Str(<<>>), Str(<<32>>), Str(<<32, 84, 101, 97, 99, 104, 101, 114, 32>>),
     Str(txt_S1), Str(txt_t)}

SpeakerDirs ==
    {{File(fn_L1, RequiredSet, <<Row(Num(1), c, Str(txt_Q), NoneCell, Str(txt_ask))>>)} :
        c \in SpeakerCells}

InitScript ==
    /\ cache = <<>>
    /\ pc = "start"
    /\ err = NoErr
    /\ data = <<>>
    /\ selected = {}
    /\ filtered = <<>>
    /\ rq1_turns = <<>>
    /\ da_counts = <<>>
    /\ st_counts = <<>>
    /\ ct_counts = EmptyCt
    /\ ct_props = EmptyProps
    /\ heat = {}
    /\ loadedDir = {}

Init ==
    /\ dir \in MergeDirs \cup SchemaDirs \cup AggDirs \cup CanonDirs
                \cup RankDirs \cup SpeakerDirs
    /\ InitScript
    /\ arg = NoneCell
    /\ ret = "idle"

Next == Load \/ Select \/ RQ1 \/ RQ2 \/ RQ3

\* one run of the script on a directory
Spec == Init /\ [][Next]_vars

----------------------------------------------------------------------------
(* Direct calls of get_role.                                                *)

Pads == SeqsUpTo({32, 9}, MaxPad)

\* "", T, t, Teacher, teacher, INSTRUCTOR, instructor, Student A,
\* Co-Teacher Jones, t-something-else-entirely, teach, S1
LabelCores ==
    {<<>>, <<84>>, <<116>>, <<84, 101, 97, 99, 104, 101, 114>>, txt_teacher,
     <<73, 78, 83, 84, 82, 85, 67, 84, 79, 82>>, txt_instructor,
     <<83, 116, 117, 100, 101, 110, 116, 32, 65>>,
     <<67, 111, 45, 84, 101, 97, 99, 104, 101, 114, 32, 74, 111, 110, 101, 115>>,
     <<116, 45, 115, 111, 109, 101, 116, 104, 105, 110, 103, 45, 101, 108, 115, 101,
       45, 101, 110, 116, 105, 114, 101, 108, 121>>,
     <<116, 101, 97, 99, 104>>, txt_S1}

\* None, pd.NA and the padded labels
SpeakerValues ==
    {NoneCell, NA} \cup {Str(l \o c \o r) : l \in Pads, c \in LabelCores, r \in Pads}

InitRole ==
    /\ dir = {}
    /\ InitScript
    /\ arg \in SpeakerValues
    /\ ret = "pending"

NextRole == CallGetRole

SpecRole == InitRole /\ [][NextRole]_vars

----------------------------------------------------------------------------
(* The directory changing between and during script runs.                   *)

CacheFiles ==
    {File(name, RequiredSet, rows) :
        name \in {fn_L1, fn_L2},
        rows \in {OneRow,
                  <<Row(Num(2), Str(txt_S1), NoneCell, Str(txt_A), Str(txt_state)),
                    Row(Num(1), Str(txt_T), Str(txt_S), NoneCell, Str(txt_state))>>}}

AddFile ==
    /\ \E f \in CacheFiles :
          /\ \A g \in dir : g.name # f.name
          /\ dir' = dir \cup {f}
    /\ UNCHANGED <<cache, pc, err, data, selected, filtered, viewVars, loadedDir, arg, ret>>

RemoveFile ==
    /\ \E f \in dir : dir' = dir \ {f}
    /\ UNCHANGED <<cache, pc, err, data, selected, filtered, viewVars, loadedDir, arg, ret>>

EditFile ==
    /\ \E f \in dir, g \in CacheFiles :
          /\ g.name = f.name
          /\ g # f
          /\ dir' = (dir \ {f}) \cup {g}
    /\ UNCHANGED <<cache, pc, err, data, selected, filtered, viewVars, loadedDir, arg, ret>>

InitCache ==
    /\ dir \in {d \in SUBSET CacheFiles : \A f, g \in d : f.name = g.name => f = g}
    /\ InitScript
    /\ arg = NoneCell
    /\ ret = "idle"

NextCache == Next \/ Rerun \/ AddFile \/ RemoveFile \/ EditFile

\* script runs, one after the other, while the files change
SpecCache == InitCache /\ [][NextCache]_vars


----------------------------------------------------------------------------
(* Properties.                                                              *)

\* the load of the current run has returned a table
Loaded == pc \in {"loaded", "filtered", "rq1", "rq2", "done", "crashed_rq3"}

\* the record of the merged table that row i of file f became
RecordsOf(f, i) ==
    {j \in DOMAIN data : data[j].lesson_id = LessonId(f.name) /\ data[j].row = i - 1}

\* C1: get_role returns, for every speaker value (None, the missing marker
\* pd.NA and the empty string included), one of teacher and student, and
\* teacher exactly when the trimmed, lower-cased label (empty for a missing
\* value) is t, teacher or instructor or contains teacher.
LabelOf(v) == IF v.k = "str" THEN Lower(Strip(v.s)) ELSE <<>>

C1_RoleTotal ==
    ret \notin {"idle", "pending"} =>
        /\ ret \in {"teacher", "student"}
        /\ ret = "teacher" <=>
              \/ LabelOf(arg) \in {txt_t, txt_teacher, txt_instructor}
              \/ Contains(LabelOf(arg), txt_teacher)

\* C2: when a discovered file lacks a required column the load fails with a
\* SchemaError that names that file and its missing columns, and no table is
\* returned or stored.
C2_SchemaError ==
    (pc # "start" /\ \E f \in xlsx_files(loadedDir) : MissingCols(f) # {}) =>
        /\ pc = "crashed_load"
        /\ err.type = "SchemaError"
        /\ \E f \in xlsx_files(loadedDir) :
              MissingCols(f) # {} /\ err.file = f.name /\ err.cols = MissingCols(f)
        /\ data = <<>>
        /\ cache = <<>>

\* C3: when the directory holds no discoverable file the load fails with an
\* EmptyCorpusError whose message refers to the directory.
C3_EmptyCorpusError ==
    (pc # "start" /\ xlsx_files(loadedDir) = {}) =>
        /\ pc = "crashed_load"
        /\ err.type = "EmptyCorpusError"
        /\ err.path

\* C4: the returned table is ordered by lesson_id, then Turn_num with the
\* missing ones last, then the row's position in its source file; every
\* discovery order of the same files gives the same table.
TurnBefore(a, b) ==
    a.Turn_num.k = "num" /\ (b.Turn_num.k = "NA" \/ a.Turn_num.n < b.Turn_num.n)

KeyLeq(a, b) ==
    \/ StrLess(a.lesson_id, b.lesson_id)
    \/ /\ a.lesson_id = b.lesson_id
       /\ \/ TurnBefore(a, b)
          \/ ~TurnBefore(b, a) /\ a.row <= b.row

C4_SortedByKey ==
    Loaded =>
        /\ \A i \in 1..(Len(data) - 1) : KeyLeq(data[i], data[i + 1])
        /\ \A o \in GlobOrders(loadedDir) : load_and_merge_xlsx(o).data = data

\* a table of two lessons where rows changed places and two rows of a lesson
\* without a Turn_num follow each other
C4_Witness ==
    /\ Loaded
    /\ Cardinality(lessons(data)) = 2
    /\ \E i \in 1..(Len(data) - 1) :
          /\ data[i].lesson_id = data[i + 1].lesson_id
          /\ data[i].row > data[i + 1].row
    /\ \E i \in 1..(Len(data) - 1) :
          /\ data[i].lesson_id = data[i + 1].lesson_id
          /\ data[i].Turn_num.k = "NA"
          /\ data[i + 1].Turn_num.k = "NA"

\* C5: in Teacher_Tag, Student_Tag and DialogAct an empty cell, a cell that is
\* empty after trimming and the texts nan and NaN all become the missing
\* marker, and none of them is a key of the dialog-act counts, of the
\* student-tag counts or a label of the proportion matrix.
BlankTexts == {<<>>, txt_nan, txt_NaN}

IsBlankCell(c) ==
    c.k = "None" \/ (c.k = "str" /\ (Strip(c.s) = <<>> \/ c.s \in BlankTexts))

C5_BlankIsMissing ==
    Loaded =>
        /\ \A f \in xlsx_files(loadedDir) : \A i \in DOMAIN f.rows :
              \A c \in {"Teacher_Tag", "Student_Tag", "DialogAct"} :
                 IsBlankCell(f.rows[i][c]) =>
                    \A j \in RecordsOf(f, i) : data[j][c] = NA
        /\ pc \in {"rq1", "rq2", "done"} =>
              \A i \in DOMAIN da_counts : da_counts[i].key \notin BlankTexts
        /\ pc \in {"rq2", "done"} =>
              \A i \in DOMAIN st_counts : st_counts[i].key \notin BlankTexts
        /\ pc = "done" =>
              ct_props.rows \cap BlankTexts = {} /\ ct_props.cols \cap BlankTexts = {}

\* C6: the proportion matrix is built from the filtered teacher rows alone:
\* each cell is the count of (teacher tag, dialog act) over the count of that
\* tag's rows with a dialog act, a row with counted acts sums to 1, a row
\* without is all zeros, and no cell is NaN or a division by zero.
TeacherRows == {i \in DOMAIN filtered : filtered[i].role = "teacher"}

CountCell(tag, act) ==
    Cardinality({i \in TeacherRows : /\ filtered[i].Teacher_Tag = Str(tag)
                                     /\ filtered[i].DialogAct = Str(act)})

CountRow(tag) ==
    Cardinality({i \in TeacherRows : /\ filtered[i].Teacher_Tag = Str(tag)
                                     /\ filtered[i].DialogAct.k = "str"})

C6_RowProportions ==
    pc = "done" =>
        /\ DOMAIN ct_props.p = ct_props.rows \X ct_props.cols
        /\ \A i \in TeacherRows :
              (filtered[i].Teacher_Tag.k = "str" /\ filtered[i].DialogAct.k = "str") =>
                 <<filtered[i].Teacher_Tag.s, filtered[i].DialogAct.s>> \in DOMAIN ct_props.p
        /\ \A q \in DOMAIN ct_props.p :
              /\ ct_props.p[q].den # 0
              /\ ct_props.p[q] = IF CountRow(q[1]) = 0 THEN Frac(0, 1)
                                 ELSE Frac(CountCell(q[1], q[2]), CountRow(q[1]))
        /\ \A t \in ct_props.rows :
              CountRow(t) > 0 =>
                 SumOver([q \in DOMAIN ct_props.p |-> ct_props.p[q].num], t, ct_props.cols)
                    = CountRow(t)

\* a matrix with a cell strictly between 0 and 1, over a slice that holds a
\* student row with a teacher tag and a dialog act
C6_Witness ==
    /\ pc = "done"
    /\ \E q \in DOMAIN ct_props.p : 0 < ct_props.p[q].num /\ ct_props.p[q].num < ct_props.p[q].den
    /\ \E i \in DOMAIN filtered :
          /\ filtered[i].role = "student"
          /\ filtered[i].Teacher_Tag.k = "str"
          /\ filtered[i].DialogAct.k = "str"

\* C7: the dialog-act counts rank the non-missing DialogAct values of the
\* filtered rows, the student-tag counts those of the filtered student rows:
\* (value, count) pairs by count descending, equal counts in order of first
\* occurrence, the first min(10, number of distinct values) of them.
FirstPos(series, key) ==
    CHOOSE i \in DOMAIN series :
        series[i].s = key /\ \A j \in 1..(i - 1) : series[j].s # key

Outranks(series, a, b) ==
    \/ CountOf(series, a) > CountOf(series, b)
    \/ CountOf(series, a) = CountOf(series, b) /\ FirstPos(series, a) < FirstPos(series, b)

IsTopTen(vc, column) ==
    LET series == SelectSeq(column, LAMBDA c : c.k = "str")
        values == {series[i].s : i \in DOMAIN series}
    IN  /\ Len(vc) = Min(10, Cardinality(values))
        /\ \A i \in DOMAIN vc :
              vc[i].key \in values /\ vc[i].count = CountOf(series, vc[i].key)
        /\ \A i, j \in DOMAIN vc : i < j => Outranks(series, vc[i].key, vc[j].key)
        /\ \A v \in values \ {vc[i].key : i \in DOMAIN vc} :
              \A i \in DOMAIN vc : Outranks(series, vc[i].key, v)

StudentRows == SelectSeq(filtered, LAMBDA r : r.role = "student")

C8_EmptySelection ==
    (selected = {} /\ pc \in {"filtered", "rq1", "rq2", "done", "crashed_rq3"}) =>
        /\ filtered = <<>>
        /\ err = NoErr
        /\ pc # "crashed_rq3"
        /\ pc = "filtered" => ENABLED RQ1
        /\ pc = "rq1" => ENABLED RQ2
        /\ pc = "rq2" => ENABLED RQ3
        /\ pc \in {"rq1", "rq2", "done"} => rq1_turns = <<>> /\ da_counts = <<>>
        /\ pc \in {"rq2", "done"} => st_counts = <<>>
        /\ pc = "done" => ct_counts.rows = {} /\ ct_props.rows = {} /\ heat = {}

\* a run that ended with no lesson selected out of a table with rows
C8_Witness == pc = "done" /\ selected = {} /\ data # <<>>

\* C9: every call of the loader returns what merging the files present at
\* the time of the call gives.
C9_NeverStale ==
    Loaded =>
        \E o \in GlobOrders(loadedDir) :
            load_and_merge_xlsx(o) = [err |-> NoErr, data |-> data]

\* C10: a load that succeeds holds exactly one record for each row of each
\* discovered file, with the file's lesson_id; a Turn that is no number gives
\* a missing Turn_num, and is never why a load fails.
SourceRows(d) == UNION {{<<f.name, i>> : i \in DOMAIN f.rows} : f \in xlsx_files(d)}

IsNumber(c) ==
    c.k = "num" \/ (c.k = "str" /\ c.s # <<>> /\ \A i \in DOMAIN c.s : c.s[i] \in 48..57)

C10_EveryRowKept ==
    /\ Loaded =>
          /\ Len(data) = Cardinality(SourceRows(loadedDir))
          /\ \A f \in xlsx_files(loadedDir) : \A i \in DOMAIN f.rows :
                /\ Cardinality(RecordsOf(f, i)) = 1
                /\ \A j \in RecordsOf(f, i) :
                      /\ data[j].Turn_num.k = "NA" <=> ~IsNumber(f.rows[i].Turn)
                      /\ f.rows[i].Turn.k = "num" => data[j].Turn_num = f.rows[i].Turn
    /\ pc = "crashed_load" =>
          \/ xlsx_files(loadedDir) = {}
          \/ \E f \in xlsx_files(loadedDir) : MissingCols(f) # {}
          \/ \E f \in xlsx_files(loadedDir) : \E i \in DOMAIN f.rows :
                ReadCell(f.rows[i].Speaker) = NA

\* a table of two lessons that holds a row whose Turn is text and no number
C10_Witness ==
    /\ Loaded
    /\ Cardinality(lessons(data)) = 2
    /\ \E j \in DOMAIN data : data[j].Turn.k = "str" /\ data[j].Turn_num.k = "NA"

====
